---- MODULE Spec2Model ----
(***************************************************************************)
(* Server actions of src/app/_lib/actions.ts: the prompts table            *)
(* (addNewPrompt, deletePrompt), the settings table (updateSettings) and   *)
(* the document ingestion handler (uploadFile).  Every await of a handler  *)
(* is a point where another request's handler may run, so a handler is a   *)
(* sequence of actions, one per awaited store / disk / helper call.        *)
(***************************************************************************)
EXTENDS Integers, Sequences, FiniteSets, TLC

\* ------------------------------------------------------------- bounds
NumClients == 2     \* concurrent requests running uploadFile
MaxUploads == 2     \* uploadFile calls started in one behaviour
MaxChunks == 1      \* chunks chunkUpText may return for one document
NumSessions == 2    \* concurrent requests running updateSettings
MaxSettingsCalls == 3
MaxPrompts == 2     \* rows the Prompts table holds at most in the model
Over == 1           \* how far a submitted string may exceed its limit

\* -------------------------------------------------- program constants
TitleLimit == 150
ContentLimit == 1000
UsernameLimit == 100
SystemLimit == 1000

VARIABLES
    \* uploadFile
    SAVE_RAW_DOCUMENT_LOCAL, Documents, Embeddings, disk, nextDocId,
    pc, call, uploads, embedFailed,
    \* updateSettings
    Settings, nextSettingsId, spc, sform, settingsCalls, settingsResult,
    \* prompts
    Prompts, nextPromptId, promptResult, promptForm

uploadVars == <<SAVE_RAW_DOCUMENT_LOCAL, Documents, Embeddings, disk, nextDocId,
                pc, call, uploads, embedFailed>>
settingsVars == <<Settings, nextSettingsId, spc, sform, settingsCalls, settingsResult>>
promptVars == <<Prompts, nextPromptId, promptResult, promptForm>>
vars == <<uploadVars, settingsVars, promptVars>>

Clients == 1..NumClients
Sessions == 1..NumSessions

Min(a, b) == IF a < b THEN a ELSE b

\* ------------------------------------------------------------ strings
\* A string is the sequence of its characters; Str(n) is a string of n
\* characters in which neighbouring characters differ.
Str(n) == [i \in 1..n |-> i % 7]

\* String.prototype.slice(0, n) for n >= 0
Slice(s, n) == SubSeq(s, 1, Min(n, Len(s)))

\* formData.get(field): null when the field is absent, else its text
Absent == [null |-> TRUE, text |-> <<>>]
Field(s) == [null |-> FALSE, text |-> s]

\* !value of a form field: null and the empty string are falsy
Falsy(v) == v.null \/ v.text = <<>>

\* ---------------------------------------------------------- file names
\* A file name is a sequence of tokens: "." is the dot character, any other
\* token is a run of characters holding no dot.
FileNames ==
    { <<"a", ".", "txt">>, <<"pdf">>,
      <<"a", ".", "TXT">>, <<"report", ".", "exe">> }

RECURSIVE LastDot(_, _)
\* index of the last "." among the first i tokens of name, 0 when none
LastDot(name, i) ==
    IF i = 0 THEN 0
    ELSE IF name[i] = "." THEN i ELSE LastDot(name, i - 1)

\* fileName.split('.').pop(): the text after the last dot, the whole name
\* when it holds no dot
SplitPop(name) == SubSeq(name, LastDot(name, Len(name)) + 1, Len(name))

\* '.' + fileName.split('.').pop()
FileExtension(name) == <<".">> \o SplitPop(name)

AllowedExtensions == { <<".", "txt">>, <<".", "pdf">>, <<".", "docx">> }

\* ------------------------------------------------------------- errors
NoFileProvided == "No file provided"
InvalidFileType == "Invalid file type"
DuplicateDocument == "This document already exists"
LocalWriteFailed == "Error writing file locally"
ExtractionOrEmbeddingFailed == "Error embedding document"
ErrorUploadingFile == "Error uploading file"
\* the message of an Error thrown by the database driver or by File.arrayBuffer
StoreError == "store error"
\* the message of the Error the store throws for a refused insert
UniqueViolation == "duplicate key value violates unique constraint"
BufferError == "buffer error"

\* new Error(message)
Err(message) == [isError |-> TRUE, message |-> message]

\* the raw-file catch re-throwing what it caught
WriteCatchRethrow(err) == err

\* catch of the raw-file write: any failure becomes one fixed Error
WriteCatch(err) == Err(LocalWriteFailed)

\* catch of the parse / chunk / embed / bulk-insert block
EmbedCatch(err) == Err(ExtractionOrEmbeddingFailed)

\* the outermost catch collapsing every error into the generic message
OuterCatchGeneric(err) == ErrorUploadingFile

\* the outermost catch: an Error is re-thrown with its own message
OuterCatch(err) == IF err.isError THEN err.message ELSE ErrorUploadingFile

\* ------------------------------------------------------------ uploadFile
\* The local state of one uploadFile call.  steps, failedAt, wrote, inserted
\* record what the call has executed; existed and retry record what held
\* when the call started.
NewCall(hasFile, name) ==
    [ hasFile |-> hasFile, name |-> name, size |-> Len(name),
      ext |-> <<>>, docId |-> 0, nChunks |-> 0,
      steps |-> <<>>, failedAt |-> "", outcome |-> "",
      wrote |-> FALSE, inserted |-> 0,
      existed |-> hasFile /\ \E d \in Documents : d.name = name,
      retry |-> hasFile /\ name \in embedFailed ]

\* the lookup comparing the wrong column
DoesDocumentExistByExtension(name) == \E d \in Documents : d.extension = name

\* db.select().from(Documents).where(eq(Documents.name, name)) is non-empty
DoesDocumentExist(name) == \E d \in Documents : d.name = name

\* a Documents table without the constraint
InsertRefusedNever(name) == FALSE

\* The Documents table's uniqueness constraint on name: the insert of a
\* second row with a name the table holds is refused by the store.
InsertRefused(name) == \E d \in Documents : d.name = name

\* the check comparing extensions without regard to case
LowerCase(tok) == IF tok = "TXT" THEN "txt" ELSE tok
ValidFileTypeAnyCase(ext) == [i \in 1..Len(ext) |-> LowerCase(ext[i])] \in AllowedExtensions

\* ['.txt', '.pdf', '.docx'].includes(fileExtension)
ValidFileType(ext) == ext \in AllowedExtensions

\* switch (fileExtension): the extractor the parse step runs
Extractor(ext) ==
    CASE ext = <<".", "txt">> -> "file.text"
      [] ext = <<".", "pdf">> -> "pdfParse"
      [] ext = <<".", "docx">> -> "mammoth.extractRawText"
      [] OTHER -> "none"

\* the handler going straight to the parse step
AfterBufferSkipWrite == "extract"

\* the step after the file's bytes were read
AfterBuffer == IF SAVE_RAW_DOCUMENT_LOCAL THEN "writeRaw" ELSE "extract"

\* a failing call that deletes the Document row it created
FailWithRollback(c, rec, step, thrown) ==
    /\ pc' = [pc EXCEPT ![c] = "done"]
    /\ call' = [call EXCEPT ![c] =
                   [rec EXCEPT !.steps = Append(@, step), !.failedAt = step,
                               !.outcome = OuterCatch(thrown)]]
    /\ embedFailed' = IF rec.hasFile /\ OuterCatch(thrown) = ExtractionOrEmbeddingFailed
                      THEN embedFailed \cup {rec.name} ELSE embedFailed
    /\ Documents' = {d \in Documents : d.id # rec.docId}
    /\ UNCHANGED <<Embeddings, disk, nextDocId>>

\* A step of call c threw: the call ends with the message the outermost
\* catch re-throws.  Nothing the call did before is undone.
Fail(c, rec, step, thrown) ==
    /\ pc' = [pc EXCEPT ![c] = "done"]
    /\ call' = [call EXCEPT ![c] =
                   [rec EXCEPT !.steps = Append(@, step), !.failedAt = step,
                               !.outcome = OuterCatch(thrown)]]
    /\ embedFailed' = IF rec.hasFile /\ OuterCatch(thrown) = ExtractionOrEmbeddingFailed
                      THEN embedFailed \cup {rec.name} ELSE embedFailed
    /\ UNCHANGED <<Documents, Embeddings, disk, nextDocId>>

\* A step of call c succeeded and the call goes on with step next
Proceed(c, rec, step, next) ==
    /\ pc' = [pc EXCEPT ![c] = next]
    /\ call' = [call EXCEPT ![c] = [rec EXCEPT !.steps = Append(@, step)]]
    /\ UNCHANGED embedFailed

\* A request arrives: the handler reads the form and validates the file
Start(c) ==
    /\ UNCHANGED <<settingsVars, promptVars>>
    /\ pc[c] \in {"idle", "done"}
    /\ uploads < MaxUploads
    /\ uploads' = uploads + 1
    /\ UNCHANGED SAVE_RAW_DOCUMENT_LOCAL
    /\ \/ Fail(c, NewCall(FALSE, <<>>), "validate", Err(NoFileProvided))
       \/ \E name \in FileNames :
            LET rec == [NewCall(TRUE, name) EXCEPT !.ext = FileExtension(name)]
            IN  IF ValidFileType(rec.ext)
                THEN /\ Proceed(c, rec, "validate", "checkName")
                     /\ UNCHANGED <<Documents, Embeddings, disk, nextDocId>>
                ELSE Fail(c, rec, "validate", Err(InvalidFileType))

\* await db.select()...where(eq(Documents.name, name))
CheckName(c) ==
    /\ UNCHANGED <<settingsVars, promptVars>>
    /\ pc[c] = "checkName"
    /\ UNCHANGED <<SAVE_RAW_DOCUMENT_LOCAL, uploads>>
    /\ \/ Fail(c, call[c], "checkName", Err(StoreError))
       \/ /\ DoesDocumentExist(call[c].name)
          /\ Fail(c, call[c], "checkName", Err(DuplicateDocument))
       \/ /\ ~DoesDocumentExist(call[c].name)
          /\ Proceed(c, call[c], "checkName", "createDocument")
          /\ UNCHANGED <<Documents, Embeddings, disk, nextDocId>>

\* await db.insert(Documents).values({name, size, extension}).returning()
CreateDocument(c) ==
    /\ UNCHANGED <<settingsVars, promptVars>>
    /\ pc[c] = "createDocument"
    /\ UNCHANGED <<SAVE_RAW_DOCUMENT_LOCAL, uploads>>
    /\ \/ Fail(c, call[c], "createDocument", Err(StoreError))
       \/ /\ InsertRefused(call[c].name)
          /\ Fail(c, call[c], "createDocument", Err(UniqueViolation))
       \/ /\ ~InsertRefused(call[c].name)
          /\ Documents' = Documents \cup
                 {[id |-> nextDocId, name |-> call[c].name, size |-> call[c].size,
                   extension |-> call[c].ext]}
          /\ nextDocId' = nextDocId + 1
          /\ Proceed(c, [call[c] EXCEPT !.docId = nextDocId], "createDocument", "buffer")
          /\ UNCHANGED <<Embeddings, disk>>

\* await file.arrayBuffer(); Buffer.from(fileArray)
ReadBuffer(c) ==
    /\ UNCHANGED <<settingsVars, promptVars>>
    /\ pc[c] = "buffer"
    /\ UNCHANGED <<SAVE_RAW_DOCUMENT_LOCAL, uploads>>
    /\ \/ Fail(c, call[c], "buffer", Err(BufferError))
       \/ /\ Proceed(c, call[c], "buffer", AfterBuffer)
          /\ UNCHANGED <<Documents, Embeddings, disk, nextDocId>>

\* if (SAVE_RAW_DOCUMENT_LOCAL): fs.mkdir, fs.writeFile
WriteRawFile(c) ==
    /\ UNCHANGED <<settingsVars, promptVars>>
    /\ pc[c] = "writeRaw"
    /\ UNCHANGED <<SAVE_RAW_DOCUMENT_LOCAL, uploads>>
    /\ \/ Fail(c, call[c], "writeRaw", WriteCatch(Err("fs error")))
       \/ /\ disk' = disk \cup {call[c].name}
          /\ Proceed(c, [call[c] EXCEPT !.wrote = TRUE], "writeRaw", "extract")
          /\ UNCHANGED <<Documents, Embeddings, nextDocId>>

\* switch (fileExtension): file.text / pdfParse / mammoth.extractRawText
ExtractText(c) ==
    /\ UNCHANGED <<settingsVars, promptVars>>
    /\ pc[c] = "extract"
    /\ Extractor(call[c].ext) # "none"
    /\ UNCHANGED <<SAVE_RAW_DOCUMENT_LOCAL, uploads>>
    /\ \/ Fail(c, call[c], "extract", EmbedCatch(Err("parse error")))
       \/ /\ Proceed(c, call[c], "extract", "chunk")
          /\ UNCHANGED <<Documents, Embeddings, disk, nextDocId>>

\* await chunkUpText(extractedRawText)
ChunkText(c) ==
    /\ UNCHANGED <<settingsVars, promptVars>>
    /\ pc[c] = "chunk"
    /\ UNCHANGED <<SAVE_RAW_DOCUMENT_LOCAL, uploads>>
    /\ \/ Fail(c, call[c], "chunk", EmbedCatch(Err("splitter error")))
       \/ \E n \in 1..MaxChunks :
            /\ Proceed(c, [call[c] EXCEPT !.nChunks = n], "chunk", "embed")
            /\ UNCHANGED <<Documents, Embeddings, disk, nextDocId>>

\* await generateEmbedding(chunkedText)
Embed(c) ==
    /\ UNCHANGED <<settingsVars, promptVars>>
    /\ pc[c] = "embed"
    /\ UNCHANGED <<SAVE_RAW_DOCUMENT_LOCAL, uploads>>
    /\ \/ Fail(c, call[c], "embed", EmbedCatch(Err("model error")))
       \/ /\ Proceed(c, call[c], "embed", "bulkInsert")
          /\ UNCHANGED <<Documents, Embeddings, disk, nextDocId>>

\* bulkInsertEmbeddings(chunks, vectors, documentId): one row per chunk, all
\* referencing documentId, persisted together or not at all
BulkRows(documentId, n) == {[documentId |-> documentId, idx |-> i] : i \in 1..n}

\* await bulkInsertEmbeddings(chunkedText, embeddings, createdDocument.id)
BulkInsert(c) ==
    /\ UNCHANGED <<settingsVars, promptVars>>
    /\ pc[c] = "bulkInsert"
    /\ UNCHANGED <<SAVE_RAW_DOCUMENT_LOCAL, uploads>>
    /\ \/ Fail(c, call[c], "bulkInsert", EmbedCatch(Err(StoreError)))
       \/ /\ Embeddings' = Embeddings \cup BulkRows(call[c].docId, call[c].nChunks)
          /\ pc' = [pc EXCEPT ![c] = "done"]
          /\ call' = [call EXCEPT ![c] =
                         [@ EXCEPT !.steps = Append(@, "bulkInsert"),
                                   !.inserted = call[c].nChunks, !.outcome = "ok"]]
          /\ UNCHANGED <<Documents, disk, nextDocId, embedFailed>>

InitUpload ==
    /\ SAVE_RAW_DOCUMENT_LOCAL \in BOOLEAN
    /\ Documents = {}
    /\ Embeddings = {}
    /\ disk = {}
    /\ nextDocId = 1
    /\ pc = [c \in Clients |-> "idle"]
    /\ call = [c \in Clients |-> NewCall(FALSE, <<>>)]
    /\ uploads = 0
    /\ embedFailed = {}

InitSettings ==
    /\ Settings = {}
    /\ nextSettingsId = 1
    /\ spc = [s \in Sessions |-> "idle"]
    /\ sform = [s \in Sessions |-> [username |-> Absent, system |-> Absent]]
    /\ settingsCalls = 0
    /\ settingsResult = [s \in Sessions |-> ""]

InitPrompts ==
    /\ Prompts = {}
    /\ nextPromptId = 1
    /\ promptResult = ""
    /\ promptForm = [title |-> Absent, prompt |-> Absent]

Init == InitUpload /\ InitSettings /\ InitPrompts

\* ---------------------------------------------------------- updateSettings
UsernameInputs == {Absent, Field(Str(UsernameLimit + Over))}
SystemInputs == {Field(Str(1)), Field(Str(SystemLimit + Over))}

\* formData.get(field)?.slice(0, n): undefined when the field is absent
OptionalSlice(v, n) == IF v.null THEN Absent ELSE Field(Slice(v.text, n))

ErrorUpdatingSettings == "Error updating settings"

\* catch of updateSettings: the call ends with 'Error updating settings'
SettingsFail(s) ==
    /\ spc' = [spc EXCEPT ![s] = "done"]
    /\ settingsResult' = [settingsResult EXCEPT ![s] = ErrorUpdatingSettings]
    /\ UNCHANGED <<Settings, nextSettingsId, sform, settingsCalls>>

\* db.insert(Settings).values({username, system}): a new row with the next id
SettingsInsert(row) == Settings \cup {row}

\* a request arrives: username and system are read from the form
SettingsStart(s) ==
    /\ UNCHANGED <<uploadVars, promptVars>>
    /\ spc[s] \in {"idle", "done"}
    /\ settingsCalls < MaxSettingsCalls
    /\ settingsCalls' = settingsCalls + 1
    /\ \E u \in UsernameInputs, y \in SystemInputs :
         sform' = [sform EXCEPT ![s] =
                      [username |-> OptionalSlice(u, UsernameLimit),
                       system |-> OptionalSlice(y, SystemLimit)]]
    /\ spc' = [spc EXCEPT ![s] = "select"]
    /\ settingsResult' = [settingsResult EXCEPT ![s] = ""]
    /\ UNCHANGED <<Settings, nextSettingsId>>

\* const settings = await db.select().from(Settings); if (!settings.length)
SettingsSelect(s) ==
    /\ UNCHANGED <<uploadVars, promptVars>>
    /\ spc[s] = "select"
    /\ \/ SettingsFail(s)
       \/ /\ spc' = [spc EXCEPT ![s] = IF Settings = {} THEN "insert" ELSE "delete"]
          /\ UNCHANGED <<Settings, nextSettingsId, sform, settingsCalls, settingsResult>>

\* await db.delete(Settings)
SettingsDelete(s) ==
    /\ UNCHANGED <<uploadVars, promptVars>>
    /\ spc[s] = "delete"
    /\ \/ SettingsFail(s)
       \/ /\ Settings' = {}
          /\ spc' = [spc EXCEPT ![s] = "insert"]
          /\ UNCHANGED <<nextSettingsId, sform, settingsCalls, settingsResult>>

\* await db.insert(Settings).values({ username, system })
SettingsInsertStep(s) ==
    /\ UNCHANGED <<uploadVars, promptVars>>
    /\ spc[s] = "insert"
    /\ \/ SettingsFail(s)
       \/ /\ Settings' = SettingsInsert([id |-> nextSettingsId,
                                        username |-> sform[s].username,
                                        system |-> sform[s].system])
          /\ nextSettingsId' = nextSettingsId + 1
          /\ spc' = [spc EXCEPT ![s] = "done"]
          /\ settingsResult' = [settingsResult EXCEPT ![s] = "ok"]
          /\ UNCHANGED <<sform, settingsCalls>>

\* ---------------------------------------------------------------- prompts
TitleInputs ==
    {Absent, Field(<<>>), Field(Str(1)), Field(Str(TitleLimit)),
     Field(Str(TitleLimit + Over))}
PromptInputs ==
    {Absent, Field(<<>>), Field(Str(1)), Field(Str(ContentLimit)),
     Field(Str(ContentLimit + Over))}

InvalidFormData == "Invalid form data"
ErrorAddingPrompt == "Error adding new prompt"
ErrorDeletingPrompt == "Error deleting prompt"

\* the insert storing the submitted strings whole
PromptValuesUnsliced(title, prompt) == [title |-> title.text, content |-> prompt.text]

\* .values({ title: title.slice(0, 150), content: prompt.slice(0, 1000) })
PromptValues(title, prompt) ==
    [title |-> Slice(title.text, TitleLimit), content |-> Slice(prompt.text, ContentLimit)]

\* addNewPrompt(formData)
AddNewPrompt ==
    /\ UNCHANGED <<uploadVars, settingsVars>>
    /\ \E title \in TitleInputs, prompt \in PromptInputs :
         /\ promptForm' = [title |-> title, prompt |-> prompt]
         /\ IF Falsy(prompt) \/ Falsy(title)
            THEN /\ promptResult' = InvalidFormData
                 /\ UNCHANGED <<Prompts, nextPromptId>>
            ELSE \/ /\ promptResult' = ErrorAddingPrompt
                    /\ UNCHANGED <<Prompts, nextPromptId>>
                 \/ /\ nextPromptId <= MaxPrompts
                    /\ LET v == PromptValues(title, prompt)
                       IN  Prompts' = Prompts \cup
                               {[id |-> nextPromptId, title |-> v.title,
                                 content |-> v.content]}
                    /\ nextPromptId' = nextPromptId + 1
                    /\ promptResult' = "added"

\* deletePrompt(id): db.delete(Prompts).where(eq(Prompts.id, id))
DeletePrompt ==
    /\ UNCHANGED <<uploadVars, settingsVars>>
    /\ UNCHANGED <<nextPromptId, promptForm>>
    /\ \E id \in 1..MaxPrompts :
         \/ /\ promptResult' = ErrorDeletingPrompt
            /\ UNCHANGED Prompts
         \/ /\ Prompts' = {r \in Prompts : r.id # id}
            /\ promptResult' = "deleted"

\* ---------------------------------------------------------- specifications
Next ==
    \E c \in Clients :
        \/ Start(c)
        \/ CheckName(c)
        \/ CreateDocument(c)
        \/ ReadBuffer(c)
        \/ WriteRawFile(c)
        \/ ExtractText(c)
        \/ ChunkText(c)
        \/ Embed(c)
        \/ BulkInsert(c)

\* concurrent uploadFile requests
Spec == Init /\ [][Next]_vars

NextSettings ==
    \E s \in Sessions :
        \/ SettingsStart(s)
        \/ SettingsSelect(s)
        \/ SettingsDelete(s)
        \/ SettingsInsertStep(s)

\* concurrent updateSettings requests
SpecSettings == Init /\ [][NextSettings]_vars

NextPrompts == AddNewPrompt \/ DeletePrompt

\* addNewPrompt and deletePrompt requests
SpecPrompts == Init /\ [][NextPrompts]_vars

\* ---------------------------------------------------------------- claims
Done(c) == pc[c] = "done"

\* what a call has written: no Document row, no raw file, no chunk rows
NoSideEffect(c) ==
    /\ call[c].docId = 0
    /\ ~call[c].wrote
    /\ call[c].inserted = 0
    /\ \A i \in 1..Len(call[c].steps) :
         call[c].steps[i] \notin {"createDocument", "buffer", "writeRaw", "extract",
                                 "chunk", "embed", "bulkInsert"}

\* C1: under any interleaving of concurrent uploadFile calls, no two rows of
\* the Documents table have the same name.
C1_UniqueNames == \A d1, d2 \in Documents : d1.name = d2.name => d1 = d2

\* Two calls carrying the same name both passed the name check before either
\* inserted; one created the row and the other's insert was refused.
C1_Witness ==
    \E c1, c2 \in Clients :
        /\ c1 # c2
        /\ call[c1].hasFile /\ call[c2].hasFile
        /\ call[c1].name = call[c2].name
        /\ ~call[c1].existed /\ ~call[c2].existed
        /\ call[c1].docId # 0
        /\ Done(c2) /\ call[c2].failedAt = "createDocument"
        /\ call[c2].outcome = UniqueViolation
        /\ \E d \in Documents : d.id = call[c1].docId /\ d.name = call[c2].name

\* C2, as stated: a call whose file name is the name of a row the store held
\* when the call started fails with 'This document already exists' and has
\* no side effect.
C2_DuplicateAlwaysReported ==
    \A c \in Clients :
        Done(c) /\ call[c].existed =>
            call[c].outcome = DuplicateDocument /\ NoSideEffect(c)

\* C2, amended: such a call fails at the name check with no side effect; the
\* error is 'This document already exists', or the store's own error when
\* the name lookup itself throws.
C2_DuplicateRejected ==
    \A c \in Clients :
        Done(c) /\ call[c].existed =>
            /\ call[c].failedAt = "checkName"
            /\ call[c].steps = <<"validate", "checkName">>
            /\ call[c].outcome \in {DuplicateDocument, StoreError}
            /\ NoSideEffect(c)
            /\ \E d \in Documents : d.name = call[c].name

\* a finished call that was rejected as a duplicate of a stored row
C2_Witness ==
    \E c \in Clients :
        /\ Done(c) /\ call[c].existed
        /\ call[c].outcome = DuplicateDocument
        /\ \E d \in Documents : d.name = call[c].name

\* the extension as the claim words it: a dot, then the text after the last
\* '.' of the name (the whole name when it holds no '.')
C3_Extension(name) ==
    LET dots == {i \in 1..Len(name) : name[i] = "."}
        last == IF dots = {} THEN 0 ELSE CHOOSE i \in dots : \A j \in dots : j <= i
    IN  <<".">> \o SubSeq(name, last + 1, Len(name))

\* C3: a call whose file's extension, compared case-sensitively, is none of
\* '.txt', '.pdf', '.docx' fails with 'Invalid file type' at validation, with
\* no Document row created and nothing written.
C3_InvalidTypeRejected ==
    \A c \in Clients :
        ( /\ Done(c) /\ call[c].hasFile
          /\ C3_Extension(call[c].name) \notin
                 { <<".", "txt">>, <<".", "pdf">>, <<".", "docx">> } ) =>
            /\ call[c].outcome = InvalidFileType
            /\ call[c].steps = <<"validate">>
            /\ NoSideEffect(c)

\* a file whose extension differs from an allowed one only in case was rejected
C3_Witness ==
    \E c \in Clients :
        /\ Done(c) /\ call[c].hasFile
        /\ call[c].name = <<"a", ".", "TXT">>
        /\ call[c].outcome = InvalidFileType

\* C4: the Settings table holds at most one row in every reachable state.
C4_AtMostOneRow == Cardinality(Settings) <= 1

\* C5, as stated: a failure of the raw-file write or of extract / chunk /
\* embed / bulk-insert surfaces as 'Error embedding document'.
C5_AllSurfaceAsEmbedding ==
    \A c \in Clients :
        Done(c) /\ call[c].failedAt \in {"writeRaw", "extract", "chunk", "embed", "bulkInsert"}
            => call[c].outcome = ExtractionOrEmbeddingFailed

\* C5, amended: a failure of extract / chunk / embed / bulk-insert surfaces
\* as 'Error embedding document'; a failure of the raw-file write surfaces
\* as 'Error writing file locally'.
C5_FailureMessages ==
    \A c \in Clients :
        Done(c) =>
            /\ call[c].failedAt \in {"extract", "chunk", "embed", "bulkInsert"}
                 => call[c].outcome = ExtractionOrEmbeddingFailed
            /\ call[c].failedAt = "writeRaw" => call[c].outcome = LocalWriteFailed

\* one call failed writing the raw file, another failed embedding
C5_Witness ==
    \E c1, c2 \in Clients :
        /\ Done(c1) /\ call[c1].failedAt = "writeRaw"
        /\ Done(c2) /\ call[c2].failedAt = "embed"

\* C6: a call that failed after it created its Document row leaves that row
\* in the store, and no chunk row references it.
C6_RowRemains ==
    \A c \in Clients :
        Done(c) /\ call[c].failedAt # "" /\ call[c].docId # 0 =>
            /\ \E d \in Documents : d.id = call[c].docId /\ d.name = call[c].name
            /\ ~\E e \in Embeddings : e.documentId = call[c].docId

\* a call failed at the bulk insert after creating its row
C6_Witness ==
    \E c \in Clients :
        /\ Done(c) /\ call[c].failedAt = "bulkInsert" /\ call[c].docId # 0

TypedFailures ==
    {InvalidFileType, DuplicateDocument, LocalWriteFailed, ExtractionOrEmbeddingFailed}

\* C7, as stated: every failing call raises one of the four typed failures.
C7_OnlyTypedFailures ==
    \A c \in Clients :
        Done(c) /\ call[c].outcome # "ok" => call[c].outcome \in TypedFailures

\* the messages a failure at a given step can surface as
C7_MessagesAt(step) ==
    CASE step = "validate" -> {NoFileProvided, InvalidFileType}
      [] step = "checkName" -> {DuplicateDocument, StoreError}
      [] step = "createDocument" -> {StoreError, UniqueViolation}
      [] step = "buffer" -> {BufferError}
      [] step = "writeRaw" -> {LocalWriteFailed}
      [] OTHER -> {ExtractionOrEmbeddingFailed}

\* C7, amended: every call ends in exactly one outcome, success or a single
\* error; the error is one of the four typed failures, 'No file provided'
\* for a missing file, or the underlying error's own message when the name
\* lookup, the Document insert or the read of the file's bytes throws.
C7_Outcomes ==
    \A c \in Clients :
        Done(c) =>
            /\ call[c].outcome # ""
            /\ call[c].outcome = "ok" <=> call[c].failedAt = ""
            /\ call[c].failedAt # "" =>
                 call[c].outcome \in C7_MessagesAt(call[c].failedAt)
            /\ ~call[c].hasFile => call[c].outcome = NoFileProvided

\* calls that failed outside the four typed failures
C7_Witness ==
    \E c1, c2 \in Clients :
        /\ Done(c1) /\ call[c1].outcome = NoFileProvided
        /\ Done(c2) /\ call[c2].outcome = StoreError
                    /\ call[c2].failedAt = "createDocument"

\* s is the first n characters of t (all of t when t is shorter)
FirstChars(s, t, n) ==
    /\ Len(s) = Min(n, Len(t))
    /\ \A i \in 1..Len(s) : s[i] = t[i]

C8_RowsBounded ==
    \A r \in Prompts : Len(r.title) <= TitleLimit /\ Len(r.content) <= ContentLimit

C8_StoresPrefixes ==
    promptResult = "added" =>
        \E r \in Prompts :
            /\ r.id = nextPromptId - 1
            /\ FirstChars(r.title, promptForm.title.text, TitleLimit)
            /\ FirstChars(r.content, promptForm.prompt.text, ContentLimit)

C8_RejectsEmpty ==
    ( /\ Falsy(promptForm'.title) \/ Falsy(promptForm'.prompt)
      /\ promptResult' \notin {"deleted", ErrorDeletingPrompt} ) =>
        Prompts' = Prompts /\ promptResult' = InvalidFormData

\* C8: every row of the Prompts table has a title of at most 150 and a
\* content of at most 1000 characters; addNewPrompt stores the first 150
\* characters of the title and the first 1000 of the prompt, and inserts
\* nothing, failing with 'Invalid form data', when either is missing or empty.
C8_PromptsTruncated ==
    /\ [](C8_RowsBounded /\ C8_StoresPrefixes)
    /\ [][C8_RejectsEmpty]_vars

\* a title and a prompt longer than their limits were submitted and stored cut
C8_Witness ==
    /\ promptResult = "added"
    /\ Len(promptForm.title.text) > TitleLimit
    /\ Len(promptForm.prompt.text) > ContentLimit
    /\ \E r \in Prompts :
         r.id = nextPromptId - 1 /\ Len(r.title) = TitleLimit /\ Len(r.content) = ContentLimit

\* the order of the steps of one call
C9_Order ==
    <<"validate", "checkName", "createDocument", "buffer">>
    \o (IF SAVE_RAW_DOCUMENT_LOCAL THEN <<"writeRaw">> ELSE <<>>)
    \o <<"extract", "chunk", "embed", "bulkInsert">>

C9_InOrder ==
    \A c \in Clients :
        /\ Len(call[c].steps) <= Len(C9_Order)
        /\ call[c].steps = SubSeq(C9_Order, 1, Len(call[c].steps))
        /\ call[c].failedAt # "" =>
             Done(c) /\ call[c].steps[Len(call[c].steps)] = call[c].failedAt
        /\ call[c].inserted > 0 =>
             /\ \E d \in Documents : d.id = call[c].docId /\ d.name = call[c].name
             /\ SAVE_RAW_DOCUMENT_LOCAL => call[c].wrote /\ call[c].name \in disk

C9_Steps ==
    /\ \A c \in Clients :
         Done(c) /\ call[c].failedAt # "" =>
             call'[c] = call[c] \/ uploads' = uploads + 1
    /\ \A e \in Embeddings' \ Embeddings :
         \E c \in Clients :
            /\ pc[c] = "bulkInsert" /\ pc'[c] = "done"
            /\ e.documentId = call[c].docId
            /\ \E d \in Documents : d.id = call[c].docId /\ d.name = call[c].name
            /\ SAVE_RAW_DOCUMENT_LOCAL => call[c].name \in disk

\* C9: the steps of a call run in the fixed order and the call ends at the
\* first failing step; chunk rows are inserted only after the call's Document
\* row exists and, with the save flag on, after the raw file was written, and
\* every inserted chunk references the Document row the same call created.
C9_FixedOrder == []C9_InOrder /\ [][C9_Steps]_vars

\* with the save flag on, a call ran all its steps and inserted its chunks
C9_Witness ==
    \E c \in Clients :
        /\ SAVE_RAW_DOCUMENT_LOCAL
        /\ Done(c) /\ call[c].outcome = "ok" /\ call[c].inserted > 0
        /\ call[c].steps = C9_Order

\* C10: a call with a file whose earlier upload failed with 'Error embedding
\* document', and whose name no ingested document carries, is not rejected as
\* a duplicate.
C10_ReuploadAccepted ==
    \A c \in Clients :
        ( /\ Done(c) /\ call[c].retry
          /\ ~\E d \in Documents, e \in Embeddings :
                d.name = call[c].name /\ e.documentId = d.id ) =>
            call[c].outcome # DuplicateDocument

====
